---- MODULE Spec2Model ----
(***************************************************************************)
(* AtualizadorDeAlarmes: merge of the alarms read from an Excel sheet into *)
(* a YAML list, in the two variants of the repository:                     *)
(*   "sort"   src/transcribe_excel_2_yaml.py      (positional columns,     *)
(*            _salvar_yaml sorts by alarm_id before writing)               *)
(*   "append" src/transcribe_excel_2_yaml_filt.py (named columns,          *)
(*            _salvar_yaml writes the list as it is)                       *)
(* A cell value is a record [k, n, s]: k is the Python type ("str", "int", *)
(* "float", "nan", "bool"), n the number (the integer part of a float      *)
(* n.5, 1/0 of a bool) and s the characters of a str, one element each;    *)
(* "a~" and "A~" stand for the characters a-tilde and A-tilde.             *)
(* A row carries the identifier column, the text1 column and the name      *)
(* column; the other five text columns are read exactly as name is.        *)
(***************************************************************************)
EXTENDS Integers, Sequences, FiniteSets

\* ------------------------------------------------------------- bounds
MaxId == 3
MaxExistentes == 2
MaxLinhas == 2
MaxStrLen == 4

Variantes == {"sort", "append"}

\* ------------------------------------------------------------- values
StrCell(s) == [k |-> "str", n |-> 0, s |-> s]
IntCell(n) == [k |-> "int", n |-> n, s |-> <<>>]
FloatCell(n) == [k |-> "float", n |-> n, s |-> <<>>]
NanCell == [k |-> "nan", n |-> 0, s |-> <<>>]
BoolCell(b) == [k |-> "bool", n |-> IF b THEN 1 ELSE 0, s |-> <<>>]

Whitespace == {" ", "\t"}
Digits == <<"0", "1", "2", "3", "4", "5", "6", "7", "8", "9">>
sim == <<"s", "i", "m">>
nao == <<"n", "a~", "o">>

RECURSIVE Digitos(_)
\* str(n) of a non-negative int
Digitos(n) ==
    IF n < 10 THEN <<Digits[n + 1]>>
    ELSE Digitos(n \div 10) \o <<Digits[(n % 10) + 1]>>

\* str(valor)
Str(valor) ==
    CASE valor.k = "str" -> valor.s
      [] valor.k = "int" -> Digitos(valor.n)
      [] valor.k = "float" -> Digitos(valor.n) \o <<".", "5">>
      [] valor.k = "nan" -> <<"n", "a", "n">>
      [] valor.k = "bool" -> IF valor.n = 1 THEN <<"T", "r", "u", "e">>
                             ELSE <<"F", "a", "l", "s", "e">>

RECURSIVE LStrip(_)
LStrip(s) ==
    IF s # <<>> /\ Head(s) \in Whitespace THEN LStrip(Tail(s)) ELSE s

RECURSIVE RStrip(_)
RStrip(s) ==
    IF s # <<>> /\ s[Len(s)] \in Whitespace
    THEN RStrip(SubSeq(s, 1, Len(s) - 1)) ELSE s

\* mutant of Strip: only the leading whitespace is removed
StripEsquerda(s) == LStrip(s)

\* str.strip()
Strip(s) == RStrip(LStrip(s))

LowerChar(c) ==
    CASE c = "S" -> "s"
      [] c = "I" -> "i"
      [] c = "M" -> "m"
      [] c = "N" -> "n"
      [] c = "A~" -> "a~"
      [] c = "O" -> "o"
      [] c = "A" -> "a"
      [] c = "T" -> "t"
      [] c = "F" -> "f"
      [] OTHER -> c

\* str.lower()
Lower(s) == [j \in 1..Len(s) |-> LowerChar(s[j])]

\* _transformar_valor_booleano
TransformarValorBooleano(valor) ==
    LET valor_str == Lower(Strip(Str(valor)))
    IN  IF valor_str = sim THEN BoolCell(TRUE)
        ELSE IF valor_str = nao THEN BoolCell(FALSE)
        ELSE valor

DigitValue(c) == CHOOSE d \in 0..9 : Digits[d + 1] = c

RECURSIVE ParseDigits(_)
ParseDigits(s) ==
    IF s = <<>> THEN 0
    ELSE 10 * ParseDigits(SubSeq(s, 1, Len(s) - 1)) + DigitValue(s[Len(s)])

IsDigit(c) == \E d \in 1..10 : Digits[d] = c

\* int(x): [ok |-> FALSE] stands for the ValueError
ParaInt(valor) ==
    CASE valor.k = "int" -> [ok |-> TRUE, v |-> valor.n]
      [] valor.k = "bool" -> [ok |-> TRUE, v |-> valor.n]
      [] valor.k = "float" -> [ok |-> TRUE, v |-> valor.n]
      [] valor.k = "nan" -> [ok |-> FALSE, v |-> 0]
      [] valor.k = "str" ->
            LET t == Strip(valor.s)
            IN  IF t # <<>> /\ \A j \in 1..Len(t) : IsDigit(t[j])
                THEN [ok |-> TRUE, v |-> ParseDigits(t)]
                ELSE [ok |-> FALSE, v |-> 0]

\* ------------------------------------------------------- ingestion
\* pd.read_excel: header=None keeps each cell's own type; header=0 with
\* dtype=str and fillna('') turns every cell into text, an empty one into ''
LerCelula(v, cel) ==
    IF v = "sort" THEN cel
    ELSE IF cel.k = "nan" THEN StrCell(<<>>)
    ELSE StrCell(Str(cel))

\* the name column: str(row[1]) by position, row[mapa['name']] by title
CampoTexto(v, cel) ==
    IF v = "sort" THEN StrCell(Str(cel)) ELSE cel

\* the alarm_data of one row; ok = FALSE when int() raises
AlarmData(v, row) ==
    LET id == ParaInt(LerCelula(v, row.id))
    IN  [ok |-> id.ok,
         alarm |-> [alarm_id |-> id.v,
                    name |-> CampoTexto(v, LerCelula(v, row.name)),
                    text1 |-> TransformarValorBooleano(LerCelula(v, row.text1))]]

\* _carregar_alarmes_excel: every except branch returns []
CarregarAlarmesExcel(v, f) ==
    IF f.kind # "ok" THEN <<>>
    ELSE LET lidos == [j \in 1..Len(f.rows) |-> AlarmData(v, f.rows[j])]
         IN  IF \E j \in 1..Len(lidos) : ~lidos[j].ok THEN <<>>
             ELSE [j \in 1..Len(lidos) |-> lidos[j].alarm]

\* mutant of CarregarAlarmesYaml: no isinstance(alarms, list) test
CarregarAlarmesYamlSemTeste(v, f) == f.data

\* _carregar_alarmes_yaml: the list of the file, [] for a missing file, a
\* top-level value that is no list, or a YAMLError
CarregarAlarmesYaml(v, f) ==
    CASE f.kind = "lista" -> f.data
      [] f.kind = "ausente" -> <<>>
      [] f.kind = "invalido" -> <<>>
      [] f.kind = "vazio" -> <<>>
      [] f.kind = "mapa" -> <<>>

\* ----------------------------------------------------------- merge
IdsDe(alarmes) == {alarmes[j].alarm_id : j \in 1..Len(alarmes)}

\* mutant of ProximoLivre: the identifier after the highest one in use
ProximoLivreAposMaior(id_novo_provisorio, ids) ==
    (CHOOSE m \in ids : \A x \in ids : x <= m) + 1

RECURSIVE ProximoLivre(_, _)
\* while id_novo_provisorio in ids_em_uso: id_novo_provisorio += 1
ProximoLivre(id_novo_provisorio, ids) ==
    IF id_novo_provisorio \in ids THEN ProximoLivre(id_novo_provisorio + 1, ids)
    ELSE id_novo_provisorio

\* mutant of IdFinal: the candidate keeps the identifier it asked for
IdFinalSemSonda(id_alvo, ids) == id_alvo

\* mutant of IdFinal: the probe increments before it tests
IdFinalIncrementaAntes(id_alvo, ids) == ProximoLivre(id_alvo + 1, ids)

\* the identifier a candidate leaves the loop body with
IdFinal(id_alvo, ids) ==
    IF id_alvo \in ids THEN ProximoLivre(id_alvo, ids) ELSE id_alvo

RECURSIVE Sorted(_)
\* sorted(data, key=alarm_id): stable insertion of the last element
Sorted(data) ==
    IF data = <<>> THEN <<>>
    ELSE LET ini == Sorted(SubSeq(data, 1, Len(data) - 1))
             x == data[Len(data)]
             p == Cardinality({j \in 1..Len(ini) : ini[j].alarm_id <= x.alarm_id})
         IN  SubSeq(ini, 1, p) \o <<x>> \o SubSeq(ini, p + 1, Len(ini))

\* mutant of DadosSalvos: neither variant sorts
DadosSalvosSemOrdenar(v, data) == data

\* what _salvar_yaml hands to yaml.dump
DadosSalvos(v, data) == IF v = "sort" THEN Sorted(data) ELSE data

\* mutant of ListaFinal: the existing records are left out
ListaFinalSoNovos(existentes, processados) == processados

\* lista_final = alarmes_existentes + alarmes_processados
ListaFinal(existentes, processados) == existentes \o processados

\* mutant of SemAlarmesNovos: the early return is never taken
SemAlarmesNovosNunca(novos) == FALSE

\* not novos_alarmes
SemAlarmesNovos(novos) == novos = <<>>

\* ----------------------------------------------------------- state
VARIABLES
    excel_file,          \* the source sheet: [kind, rows]
    yaml_inicial,        \* the destination as it was before the run
    yaml_file,           \* per variant: the destination [kind, data]
    pc,                  \* per variant: position in executar_atualizacao
    alarmes_existentes,
    novos_alarmes,
    ids_pedidos,         \* per variant: the alarm_id of each candidate as ingested
    ids_em_uso,
    alarmes_processados,
    escritas             \* per variant: how many times the destination was opened for writing

vars == <<excel_file, yaml_inicial, yaml_file, pc, alarmes_existentes,
          novos_alarmes, ids_pedidos, ids_em_uso, alarmes_processados, escritas>>

\* ----------------------------------------------------------- inputs
SeqsAte(S, n) == UNION {[1..m -> S] : m \in 0..n}

Registro(n, c) ==
    [alarm_id |-> n, name |-> StrCell(<<c>>), text1 |-> BoolCell(TRUE)]

Lista(d) == [kind |-> "lista", data |-> d]

\* a destination that holds no list: no file, an empty file, a top-level
\* mapping (whatever it holds), text that is no YAML
YamlSemLista ==
    {[kind |-> "ausente", data |-> <<>>],
     [kind |-> "vazio", data |-> <<>>],
     [kind |-> "mapa", data |-> <<Registro(1, "a")>>],
     [kind |-> "invalido", data |-> <<>>]}

\* existing lists in any order, repeated identifiers included
YamlListas(nomes) ==
    {Lista(d) : d \in SeqsAte({Registro(n, c) : n \in 1..MaxId, c \in nomes},
                              MaxExistentes)}

Linha(id, name, text1) == [id |-> id, name |-> name, text1 |-> text1]

Planilha(rows) == [kind |-> "ok", rows |-> rows]

\* sheets that yield no row: missing file, unreadable file, missing columns
ExcelSemLinhas ==
    {[kind |-> k, rows |-> <<>>] : k \in {"ausente", "ilegivel", "sem_colunas"}}

\* rows whose identifier is an integer cell
LinhasInteiras ==
    {Linha(IntCell(n), StrCell(<<"x">>), StrCell(<<"S", "i", "m">>)) : n \in 1..MaxId}

\* identifier cells of every kind: integers, n.5, empty, text
CelulasId ==
    {IntCell(n) : n \in 1..MaxId} \cup
    {FloatCell(MaxId), NanCell, StrCell(<<"x">>), StrCell(<<" ", "2">>)}

LinhasQuaisquer ==
    {Linha(id, IntCell(3), StrCell(<<"n", "a~", "o">>)) : id \in CelulasId}

Alfabeto == {" ", "s", "S", "i", "m", "n", "a~", "A~", "o"}

\* text1 cells: every text up to MaxStrLen over Alfabeto, the examples of the
\* boolean transform, and cells that hold no text
CelulasText1 ==
    {StrCell(t) : t \in SeqsAte(Alfabeto, MaxStrLen)} \cup
    {StrCell(<<" ", "S", "I", "M", " ">>), StrCell(<<"\t", "N", "A~", "O">>),
     StrCell(<<"t", "a", "l", "v", "e", "z">>), StrCell(<<"3">>),
     IntCell(3), NanCell, BoolCell(TRUE)}

\* the merge: every existing list against every batch of integer identifiers
EntradasMerge(nomes) ==
    ((YamlListas(nomes) \cup YamlSemLista)
        \X ({Planilha(r) : r \in SeqsAte(LinhasInteiras, MaxLinhas)} \cup ExcelSemLinhas))
    \cup {<<Lista(<<Registro(1, "a"), Registro(5, "b")>>),
            Planilha(<<Linha(IntCell(5), StrCell(<<"x">>), StrCell(<<"s">>)),
                       Linha(IntCell(6), StrCell(<<"x">>), StrCell(<<"s">>))>>)>>}

\* the ingestion: identifier cells of every kind
EntradasIngestao ==
    {Lista(<<>>), Lista(<<Registro(2, "a"), Registro(1, "b")>>)}
        \X {Planilha(r) : r \in SeqsAte(LinhasQuaisquer, MaxLinhas)}

\* the boolean transform: one row, its text1 cell of every kind and a name
\* cell that holds the text the transform looks for
EntradasTransformacao ==
    {Lista(<<Registro(1, "a")>>)}
        \X {Planilha(<<Linha(IntCell(1), StrCell(sim), t)>>) : t \in CelulasText1}

InitEstado(entrada, ativos) ==
    /\ yaml_inicial = entrada[1]
    /\ excel_file = entrada[2]
    /\ yaml_file = [v \in Variantes |-> entrada[1]]
    /\ pc = [v \in Variantes |-> IF v \in ativos THEN "inicio" ELSE "off"]
    /\ alarmes_existentes = [v \in Variantes |-> <<>>]
    /\ novos_alarmes = [v \in Variantes |-> <<>>]
    /\ ids_pedidos = [v \in Variantes |-> <<>>]
    /\ ids_em_uso = [v \in Variantes |-> {}]
    /\ alarmes_processados = [v \in Variantes |-> <<>>]
    /\ escritas = [v \in Variantes |-> 0]

\* one variant runs on one destination and one source
Init ==
    \E entrada \in EntradasMerge({"a", "b"}) \cup EntradasIngestao \cup EntradasTransformacao :
        \E v \in Variantes : InitEstado(entrada, {v})

\* both variants run, each on its own copy of the same destination
InitPar ==
    \E entrada \in EntradasMerge({"a"}) : InitEstado(entrada, Variantes)

\* ---------------------------------------------------------- actions
\* alarmes_existentes = self._carregar_alarmes_yaml()
CarregarYaml(v) ==
    /\ pc[v] = "inicio"
    /\ alarmes_existentes' =
         [alarmes_existentes EXCEPT ![v] = CarregarAlarmesYaml(v, yaml_file[v])]
    /\ pc' = [pc EXCEPT ![v] = "excel"]
    /\ UNCHANGED <<excel_file, yaml_inicial, yaml_file, novos_alarmes, ids_pedidos,
                   ids_em_uso, alarmes_processados, escritas>>

\* novos_alarmes = self._carregar_alarmes_excel()
CarregarExcel(v) ==
    /\ pc[v] = "excel"
    /\ LET novos == CarregarAlarmesExcel(v, excel_file)
       IN  /\ novos_alarmes' = [novos_alarmes EXCEPT ![v] = novos]
           /\ ids_pedidos' =
                [ids_pedidos EXCEPT ![v] = [j \in 1..Len(novos) |-> novos[j].alarm_id]]
    /\ pc' = [pc EXCEPT ![v] = "checar"]
    /\ UNCHANGED <<excel_file, yaml_inicial, yaml_file, alarmes_existentes,
                   ids_em_uso, alarmes_processados, escritas>>

\* if not novos_alarmes: return
NenhumAlarmeNovo(v) ==
    /\ pc[v] = "checar"
    /\ SemAlarmesNovos(novos_alarmes[v])
    /\ pc' = [pc EXCEPT ![v] = "fim"]
    /\ UNCHANGED <<excel_file, yaml_inicial, yaml_file, alarmes_existentes,
                   novos_alarmes, ids_pedidos, ids_em_uso, alarmes_processados, escritas>>

\* ids_em_uso = {alarm['alarm_id'] for alarm in alarmes_existentes}
IniciarMerge(v) ==
    /\ pc[v] = "checar"
    /\ ~SemAlarmesNovos(novos_alarmes[v])
    /\ ids_em_uso' = [ids_em_uso EXCEPT ![v] = IdsDe(alarmes_existentes[v])]
    /\ alarmes_processados' = [alarmes_processados EXCEPT ![v] = <<>>]
    /\ pc' = [pc EXCEPT ![v] = "loop"]
    /\ UNCHANGED <<excel_file, yaml_inicial, yaml_file, alarmes_existentes,
                   novos_alarmes, ids_pedidos, escritas>>

\* one pass of: for alarme_novo in novos_alarmes
ResolverConflito(v) ==
    /\ pc[v] = "loop"
    /\ Len(alarmes_processados[v]) < Len(novos_alarmes[v])
    /\ LET j == Len(alarmes_processados[v]) + 1
           id_alvo == novos_alarmes[v][j].alarm_id
           alarme_novo == [novos_alarmes[v][j] EXCEPT
                             !.alarm_id = IdFinal(id_alvo, ids_em_uso[v])]
       IN  /\ novos_alarmes' = [novos_alarmes EXCEPT ![v][j] = alarme_novo]
           /\ ids_em_uso' = [ids_em_uso EXCEPT ![v] = @ \cup {alarme_novo.alarm_id}]
           /\ alarmes_processados' =
                [alarmes_processados EXCEPT ![v] = Append(@, alarme_novo)]
    /\ UNCHANGED <<excel_file, yaml_inicial, yaml_file, pc, alarmes_existentes,
                   ids_pedidos, escritas>>

\* lista_final = ...; self._salvar_yaml(lista_final)
SalvarYaml(v) ==
    /\ pc[v] = "loop"
    /\ Len(alarmes_processados[v]) = Len(novos_alarmes[v])
    /\ LET lista_final == ListaFinal(alarmes_existentes[v], alarmes_processados[v])
       IN  yaml_file' = [yaml_file EXCEPT ![v] = Lista(DadosSalvos(v, lista_final))]
    /\ escritas' = [escritas EXCEPT ![v] = @ + 1]
    /\ pc' = [pc EXCEPT ![v] = "fim"]
    /\ UNCHANGED <<excel_file, yaml_inicial, alarmes_existentes, novos_alarmes,
                   ids_pedidos, ids_em_uso, alarmes_processados>>

Next ==
    \E v \in Variantes :
        \/ CarregarYaml(v)
        \/ CarregarExcel(v)
        \/ NenhumAlarmeNovo(v)
        \/ IniciarMerge(v)
        \/ ResolverConflito(v)
        \/ SalvarYaml(v)

Spec == Init /\ [][Next]_vars

SpecPar == InitPar /\ [][Next]_vars

\* ------------------------------------------------------- properties
Fim(v) == pc[v] = "fim"

Salvou(v) == Fim(v) /\ escritas[v] = 1

IdsSeq(alarmes) == [j \in 1..Len(alarmes) |-> alarmes[j].alarm_id]

Distintos(q) == \A a, b \in 1..Len(q) : a # b => q[a] # q[b]

Contar(q, r) == Cardinality({j \in 1..Len(q) : q[j] = r})

Permutacao(p, q) ==
    /\ Len(p) = Len(q)
    /\ \A j \in 1..Len(p) : Contar(p, p[j]) = Contar(q, p[j])

Crescente(q) == \A a, b \in 1..Len(q) : a < b => q[a] <= q[b]

\* the records of q whose alarm_id is one of ids, in the order of q
Restrita(q, ids) ==
    LET Dentro(r) == r.alarm_id \in ids
    IN  SelectSeq(q, Dentro)

\* C1 as stated: after a merge the alarm_id values of the persisted list are
\* pairwise distinct, whatever the existing list held
C1_IdsDistintosSempre ==
    \A v \in Variantes :
        Salvou(v) => Distintos(IdsSeq(yaml_file[v].data))

\* C1 amended: when the alarm_id values of the existing list are pairwise
\* distinct, those of the persisted list are pairwise distinct after a merge
C1_IdsDistintos ==
    \A v \in Variantes :
        (Salvou(v) /\ Distintos(IdsSeq(alarmes_existentes[v])))
            => Distintos(IdsSeq(yaml_file[v].data))

C1_Witness ==
    \E v \in Variantes :
        /\ Salvou(v)
        /\ Len(alarmes_existentes[v]) >= 2
        /\ Distintos(IdsSeq(alarmes_existentes[v]))
        /\ \E j \in 1..Len(ids_pedidos[v]) :
              /\ ids_pedidos[v][j] \in IdsDe(alarmes_existentes[v])
              /\ alarmes_processados[v][j].alarm_id # ids_pedidos[v][j]

\* C2: in both variants the persisted list restricted to the existing
\* records lists them in the order they had in the existing list
C2_OrdemPreservada ==
    \A v \in Variantes :
        Salvou(v) =>
            Restrita(yaml_file[v].data, IdsDe(alarmes_existentes[v]))
                = alarmes_existentes[v]

\* C3: a candidate asking for k gets the first of k, k+1, ... that is not in
\* use (existing identifiers and those given to earlier candidates), never
\* less than k; the identifier is in use from then on; existing {1,5} and
\* the batch [5, 6] give [6, 7]
C3_Sonda ==
    \A v \in Variantes :
        LET E == IdsDe(alarmes_existentes[v])
            P == IdsSeq(alarmes_processados[v])
        IN  /\ \A j \in 1..Len(P) :
                  LET emUso == E \cup {P[a] : a \in 1..(j - 1)}
                      k == ids_pedidos[v][j]
                  IN  /\ P[j] >= k
                      /\ P[j] \notin emUso
                      /\ \A x \in k..(P[j] - 1) : x \in emUso
            /\ pc[v] = "loop" => ids_em_uso[v] = E \cup {P[a] : a \in 1..Len(P)}
            /\ (Fim(v) /\ IdsSeq(alarmes_existentes[v]) = <<1, 5>>
                       /\ ids_pedidos[v] = <<5, 6>>) => P = <<6, 7>>

C3_Witness ==
    \E v \in Variantes :
        /\ Salvou(v)
        /\ IdsSeq(alarmes_existentes[v]) = <<1, 5>>
        /\ ids_pedidos[v] = <<5, 6>>
        /\ IdsSeq(alarmes_processados[v]) = <<6, 7>>

\* C4: the destination is written at most once, only when every candidate
\* was ingested and resolved; with zero candidates it is never written and
\* keeps the content it had
C4_EscritaUnica ==
    \A v \in Variantes :
        /\ escritas[v] <= 1
        /\ escritas[v] = 0 => yaml_file[v] = yaml_inicial
        /\ escritas[v] = 1 =>
              /\ Fim(v)
              /\ novos_alarmes[v] # <<>>
              /\ Len(alarmes_processados[v]) = Len(novos_alarmes[v])
        /\ (Fim(v) /\ novos_alarmes[v] = <<>>) =>
              (escritas[v] = 0 /\ yaml_file[v] = yaml_inicial)

C4_Witness ==
    \E v \in Variantes :
        /\ Fim(v)
        /\ escritas[v] = 0
        /\ excel_file.kind = "ok"
        /\ Len(excel_file.rows) = 2
        /\ yaml_inicial.kind = "lista"
        /\ yaml_inicial.data # <<>>
        /\ yaml_file[v] = yaml_inicial

\* an identifier cell that holds no integer: a fraction, nothing, or text
\* that is not a run of digits
NaoInteiro(cel) ==
    \/ cel.k \in {"float", "nan"}
    \/ /\ cel.k = "str"
       /\ \A a, b \in 1..Len(cel.s) :
             ~(/\ a <= b
               /\ \A j \in 1..Len(cel.s) :
                     IF j < a \/ j > b THEN cel.s[j] \in Whitespace
                     ELSE IsDigit(cel.s[j]))

\* C5: a row whose identifier is no integer, at any position, leaves zero
\* candidates and nothing is written
C5_IdentificadorMalformado ==
    \A v \in Variantes :
        (/\ pc[v] \in {"checar", "loop", "fim"}
         /\ excel_file.kind = "ok"
         /\ \E j \in 1..Len(excel_file.rows) : NaoInteiro(excel_file.rows[j].id))
            => (novos_alarmes[v] = <<>> /\ escritas[v] = 0)

\* C6: the existing records are never changed: the loaded list is the list
\* of the file, and each of its records is in the persisted list as often
\* as it was in the file
C6_ExistentesIntactos ==
    \A v \in Variantes :
        yaml_inicial.kind = "lista" =>
            /\ pc[v] \in {"excel", "checar", "loop", "fim"}
                  => alarmes_existentes[v] = yaml_inicial.data
            /\ Salvou(v) =>
                  \A j \in 1..Len(yaml_inicial.data) :
                      Contar(yaml_file[v].data, yaml_inicial.data[j])
                          = Contar(yaml_inicial.data, yaml_inicial.data[j])

C6_Witness ==
    \E v \in Variantes :
        /\ Salvou(v)
        /\ Len(yaml_inicial.data) = 2
        /\ yaml_inicial.kind = "lista"
        /\ \A j \in 1..Len(ids_pedidos[v]) :
              ids_pedidos[v][j] \in IdsDe(yaml_inicial.data)
        /\ Len(ids_pedidos[v]) = 2

\* C7 as stated: with no existing record every candidate keeps the
\* identifier it asked for, whatever the batch
C7_MantemIdSempre ==
    \A v \in Variantes :
        (Salvou(v) /\ alarmes_existentes[v] = <<>>)
            => /\ IdsSeq(alarmes_processados[v]) = ids_pedidos[v]
               /\ Permutacao(IdsSeq(yaml_file[v].data), ids_pedidos[v])

\* C7 amended: with no existing record and a batch whose requested
\* identifiers are pairwise distinct, every candidate keeps its identifier
C7_MantemId ==
    \A v \in Variantes :
        (Salvou(v) /\ alarmes_existentes[v] = <<>> /\ Distintos(ids_pedidos[v]))
            => /\ IdsSeq(alarmes_processados[v]) = ids_pedidos[v]
               /\ Permutacao(IdsSeq(yaml_file[v].data), ids_pedidos[v])

C7_Witness ==
    \E v \in Variantes :
        /\ Salvou(v)
        /\ alarmes_existentes[v] = <<>>
        /\ Len(ids_pedidos[v]) = 2
        /\ Distintos(ids_pedidos[v])
        /\ IdsSeq(alarmes_processados[v]) = ids_pedidos[v]

\* the two cases of each letter of 'sim' and of the word for no
Caixas(c) ==
    CASE c = "s" -> {"s", "S"}
      [] c = "i" -> {"i", "I"}
      [] c = "m" -> {"m", "M"}
      [] c = "n" -> {"n", "N"}
      [] c = "a~" -> {"a~", "A~"}
      [] c = "o" -> {"o", "O"}

\* t is palavra in any case between two runs of whitespace
CasaCom(t, palavra) ==
    \E a \in 0..Len(t) :
        /\ a + Len(palavra) <= Len(t)
        /\ \A j \in 1..Len(t) :
              IF j <= a \/ j > a + Len(palavra) THEN t[j] \in Whitespace
              ELSE t[j] \in Caixas(palavra[j - a])

\* C8: text1 of a candidate is true when the text of the value handed to the
\* transform is 'sim' in any case with whitespace around it, false when it is
\* the word for no, the value itself otherwise; the name field stays text
C8_Transformacao ==
    \A v \in Variantes :
        (pc[v] \in {"checar", "loop", "fim"} /\ novos_alarmes[v] # <<>>) =>
            \A j \in 1..Len(novos_alarmes[v]) :
                LET row == excel_file.rows[j]
                    valor == IF v = "sort" \/ row.text1.k = "str" THEN row.text1
                             ELSE StrCell(IF row.text1.k = "nan" THEN <<>>
                                          ELSE Str(row.text1))
                    texto == Str(valor)
                    alarme == novos_alarmes[v][j]
                IN  /\ CasaCom(texto, sim) => alarme.text1 = BoolCell(TRUE)
                    /\ CasaCom(texto, nao) => alarme.text1 = BoolCell(FALSE)
                    /\ (~CasaCom(texto, sim) /\ ~CasaCom(texto, nao))
                          => alarme.text1 = valor
                    /\ alarme.name.k = "str"
                    /\ row.name.k = "str" => alarme.name = row.name

C8_Witness ==
    \E v \in Variantes :
        /\ Fim(v)
        /\ Len(novos_alarmes[v]) = 1
        /\ excel_file.rows[1].text1 = StrCell(<<" ", "S", "I", "M", " ">>)
        /\ excel_file.rows[1].name = StrCell(sim)
        /\ novos_alarmes[v][1].text1 = BoolCell(TRUE)
        /\ novos_alarmes[v][1].name = StrCell(sim)

====
